---- MODULE Spec2Model ----
(***************************************************************************)
(* Study Manager (scripts/study_manager.py): flashcard decks stored as     *)
(* JSON files in one data directory, rescheduled with an SM-2 variant.     *)
(*                                                                         *)
(* The data directory is the variable files: file stem -> parsed content.  *)
(* The index/stats document is the file "decks" (decks.json); a deck with  *)
(* id d is the file d (d.json).  Both kinds share the one directory, as in *)
(* the source (DATA_DIR / "decks.json" and DATA_DIR / f"{deck_id}.json").  *)
(*                                                                         *)
(* Ease factors are kept in hundredths (2.5 is 250): the source rounds the *)
(* persisted ease to two decimals on every review.  int(interval * ease)   *)
(* is the exact quotient except where the double product falls just below  *)
(* an integer; those operands are listed in ShortProducts for every card   *)
(* state reachable in at most nine reviews of a card.  The products of     *)
(* Hard and Easy agree with the exact quotient on all of those states.     *)
(*                                                                         *)
(* Each write_text is taken as one atomic replacement of the file, and the *)
(* JSON encoding as lossless on the values stored (text, integers, null,   *)
(* two-decimal floats).  The "created" timestamps, which no operation      *)
(* reads, are left out of the documents.                                   *)
(*                                                                         *)
(* Time is a tick counter, TicksPerDay ticks to a calendar day; an ISO     *)
(* timestamp is a tick, an ISO date is tick \div TicksPerDay.              *)
(*                                                                         *)
(* The queries get_due_cards and get_dashboard_data write nothing and are  *)
(* operators of the directory and the instant.  Where two processes call   *)
(* update_card side by side (RaceSpec), the call is four steps, one for    *)
(* each access to a file, and procs holds what each process has in memory. *)
(***************************************************************************)
EXTENDS Integers, Sequences, FiniteSets, TLC

VARIABLES
  files,      \* the data directory: [file stem -> document]
  now,        \* datetime.now(), in ticks
  reviews,    \* number of update_card calls that saved a reviewed card
  procs       \* update_card calls in progress: [process -> its locals]

vars == <<files, now, reviews, procs>>

----------------------------------------------------------------------------
(* Bounds of the model *)

MaxNow == 1
MaxReviews == 1
MaxCards == 1
MaxDecks == 1
MaxCardReviews == 7
MaxStudyNow == 5
MaxStudyReviews == 3
RaceCards == 2
MaxShelfDecks == 2
MaxShelfReviews == 2
MaxShelfNow == 3

----------------------------------------------------------------------------
(* Program constants *)

None == -1
TicksPerDay == 2
InitialInterval == 1
InitialEase == 250
EaseFloor == 130
AgainPenalty == 20
HardPenalty == 15
EasyBonus == 15
MasteredDays == 21

IndexFile == "decks"

Names == {"Bio"}
HashSuffixes == {"0a1b2c", "ffffff"}
Ratings == 0 .. 3
RatingArgs == 0 .. 4

(* get_due_cards(): the deck_id argument left at its default *)
NoFilter == ""

(* the processes that call update_card side by side *)
Procs == {"A", "B"}

(* a process that is not inside update_card *)
Idle == [pc |-> "idle"]

Max(a, b) == IF a >= b THEN a ELSE b

(* datetime.now().date(): the calendar day of a tick *)
DateOf(t) == t \div TicksPerDay

(* datetime.now() + timedelta(days = n) *)
PlusDays(t, n) == t + n * TicksPerDay

----------------------------------------------------------------------------
(* Deck store *)

(* load_deck's answer for a file that does not exist *)
NoDeck == [none |-> TRUE]

IsNone(doc) == "none" \in DOMAIN doc

DefaultIndex ==
  [decks |-> <<>>,
   stats |-> [totalReviews |-> 0, streak |-> 0, lastStudy |-> None]]

IndexExists(fs) == IndexFile \in DOMAIN fs

load_decks(fs) == IF IndexExists(fs) THEN fs[IndexFile] ELSE DefaultIndex

save_decks(fs, data) == (IndexFile :> data) @@ fs

DeckExists(fs, deck_id) == deck_id \in DOMAIN fs

load_deck(fs, deck_id) == IF DeckExists(fs, deck_id) THEN fs[deck_id] ELSE NoDeck

(* save_deck that keeps the reviewed cards of the record it replaces *)
save_deck_Merge(fs, deck_id, deck_data) ==
  LET Kept(i) ==
        IF /\ "lastReview" \notin DOMAIN deck_data.cards[i]
           /\ deck_id \in DOMAIN fs
           /\ i \in 1 .. Len(fs[deck_id].cards)
        THEN fs[deck_id].cards[i] ELSE deck_data.cards[i]
  IN  (deck_id :> [deck_data EXCEPT
                     !.cards = [i \in 1 .. Len(deck_data.cards) |-> Kept(i)]])
      @@ fs

save_deck(fs, deck_id, deck_data) == (deck_id :> deck_data) @@ fs

unlink(fs, stem) == [f \in DOMAIN fs \ {stem} |-> fs[f]]

----------------------------------------------------------------------------
(* Deck ids *)

Slug(name) == CASE name = "Bio" -> "bio"

generate_deck_id(name, h) == Slug(name) \o "-" \o h

DeckIds == {generate_deck_id(n, h) : n \in Names, h \in HashSuffixes}

DeckIdArgs == DeckIds \cup {IndexFile}

CardId(deck_id, i) == deck_id \o "-" \o ToString(i)

CardIdArgs == {CardId(d, i) : d \in DeckIds, i \in 0 .. MaxCards - 1}

----------------------------------------------------------------------------
(* SM-2 scheduling (update_card, lines 184-213) *)

(* NextReps with Hard left out of the successful recalls *)
NextReps_HardNotCounted(reps, rating) ==
  IF rating = 0 THEN 0 ELSE IF rating = 1 THEN reps ELSE reps + 1

NextReps(reps, rating) == IF rating = 0 THEN 0 ELSE reps + 1

(* NextEase with the floor missing on Again *)
NextEase_NoFloor(ease, rating) ==
  CASE rating = 0 -> ease - AgainPenalty
    [] rating = 1 -> Max(EaseFloor, ease - HardPenalty)
    [] rating = 3 -> ease + EasyBonus
    [] OTHER -> ease

NextEase(ease, rating) ==
  CASE rating = 0 -> Max(EaseFloor, ease - AgainPenalty)
    [] rating = 1 -> Max(EaseFloor, ease - HardPenalty)
    [] rating = 3 -> ease + EasyBonus
    [] OTHER -> ease

(* Operands <<interval, ease>> whose double product interval * ease is    *)
(* just below the exact integer product, so that int() gives one less     *)
ShortProducts ==
  {<<50, 230>>, <<60, 205>>, <<90, 230>>, <<100, 205>>, <<100, 230>>,
   <<110, 230>>, <<165, 280>>, <<170, 230>>, <<175, 280>>, <<180, 255>>,
   <<190, 230>>, <<200, 230>>, <<220, 230>>, <<340, 230>>, <<355, 280>>,
   <<365, 280>>, <<645, 280>>, <<655, 280>>, <<675, 280>>, <<680, 280>>,
   <<685, 280>>, <<720, 280>>, <<725, 280>>, <<730, 280>>, <<1290, 280>>,
   <<1310, 280>>, <<1340, 280>>, <<1345, 280>>, <<1350, 280>>, <<1355, 280>>,
   <<1365, 280>>, <<1395, 280>>, <<1405, 280>>, <<1425, 280>>, <<1440, 280>>,
   <<1450, 280>>, <<1460, 280>>, <<2900, 280>>}

(* int(interval * ease) *)
IntTimesEase(interval, ease) ==
  IF <<interval, ease>> \in ShortProducts
  THEN (interval * ease) \div 100 - 1
  ELSE (interval * ease) \div 100

(* NextInterval with Good falling back to 6 days from the second        *)
(* repetition on                                                        *)
NextInterval_GoodStuck(interval, ease, reps, rating) ==
  CASE rating = 0 -> 1
    [] rating = 1 -> Max(1, (interval * 12) \div 10)
    [] rating = 2 -> IF reps = 1 THEN 1 ELSE 6
    [] rating = 3 -> IF reps = 1 THEN 4
                     ELSE (interval * ease * 13) \div 1000
    [] OTHER -> interval

(* NextInterval with Good testing the repetition count before the       *)
(* increment                                                            *)
NextInterval_GoodLate(interval, ease, reps, rating) ==
  CASE rating = 0 -> 1
    [] rating = 1 -> Max(1, (interval * 12) \div 10)
    [] rating = 2 -> IF reps - 1 = 1 THEN 1
                     ELSE IF reps - 1 = 2 THEN 6
                     ELSE IntTimesEase(interval, ease)
    [] rating = 3 -> IF reps = 1 THEN 4
                     ELSE (interval * ease * 13) \div 1000
    [] OTHER -> interval

(* NextInterval with Again leaving no day between reviews *)
NextInterval_AgainSameDay(interval, ease, reps, rating) ==
  CASE rating = 0 -> 0
    [] rating = 1 -> Max(1, (interval * 12) \div 10)
    [] rating = 2 -> IF reps = 1 THEN 1
                     ELSE IF reps = 2 THEN 6
                     ELSE IntTimesEase(interval, ease)
    [] rating = 3 -> IF reps = 1 THEN 4
                     ELSE (interval * ease * 13) \div 1000
    [] OTHER -> interval

(* reps is the count after the increment, ease the ease before the review *)
NextInterval(interval, ease, reps, rating) ==
  CASE rating = 0 -> 1
    [] rating = 1 -> Max(1, (interval * 12) \div 10)
    [] rating = 2 -> IF reps = 1 THEN 1
                     ELSE IF reps = 2 THEN 6
                     ELSE IntTimesEase(interval, ease)
    [] rating = 3 -> IF reps = 1 THEN 4
                     ELSE (interval * ease * 13) \div 1000
    [] OTHER -> interval

ReviewedCard(card, rating, t) ==
  LET reps == NextReps(card.reps, rating)
      interval == NextInterval(card.interval, card.ease, reps, rating)
      ease == NextEase(card.ease, rating)
  IN  [interval |-> interval, ease |-> ease, reps |-> reps,
       due |-> PlusDays(t, interval), lastReview |-> t, lastRating |-> rating]
      @@ card

(* the index of the first card with this id, 0 when there is none *)
FindCard(cards, card_id) ==
  LET hits == {i \in 1 .. Len(cards) : cards[i].id = card_id}
  IN  IF hits = {} THEN 0 ELSE CHOOSE i \in hits : \A j \in hits : i <= j

----------------------------------------------------------------------------
(* Global stats (update_card, lines 226-246) *)

(* NextStreak that counts on after a gap instead of starting over *)
NextStreak_NoReset(stats, today) ==
  IF stats.lastStudy = today THEN stats.streak
  ELSE IF stats.lastStudy = None THEN 1
  ELSE IF today - stats.lastStudy >= 1 THEN stats.streak + 1
  ELSE stats.streak

(* NextStreak that counts every review, also a second one on a day *)
NextStreak_PerReview(stats, today) ==
  IF stats.lastStudy = None THEN 1
  ELSE IF today - stats.lastStudy <= 1 THEN stats.streak + 1
  ELSE 1

NextStreak(stats, today) ==
  IF stats.lastStudy = today THEN stats.streak
  ELSE IF stats.lastStudy = None THEN 1
  ELSE IF today - stats.lastStudy = 1 THEN stats.streak + 1
  ELSE IF today - stats.lastStudy > 1 THEN 1
  ELSE stats.streak

Activity(stats) == IF "activity" \in DOMAIN stats THEN stats.activity ELSE << >>

ActivityOn(stats, day) ==
  IF day \in DOMAIN Activity(stats) THEN Activity(stats)[day] ELSE 0

(* NextStats that marks the day in activity instead of counting in it *)
NextStats_DayMarked(stats, today) ==
  [totalReviews |-> stats.totalReviews + 1,
   streak |-> NextStreak(stats, today),
   lastStudy |-> today,
   activity |-> (today :> 1) @@ Activity(stats)]

NextStats(stats, today) ==
  [totalReviews |-> stats.totalReviews + 1,
   streak |-> NextStreak(stats, today),
   lastStudy |-> today,
   activity |-> (today :> ActivityOn(stats, today) + 1) @@ Activity(stats)]

----------------------------------------------------------------------------
(* Operations.  Each is one call run to completion; what it raises or      *)
(* returns is a function of the directory it starts from.                  *)

Init ==
  /\ files = << >>
  /\ now = 0
  /\ reviews = 0
  /\ procs = [p \in Procs |-> Idle]

Tick ==
  /\ now' = now + 1
  /\ UNCHANGED <<files, reviews, procs>>

InitialCard(deck_id, i, card) ==
  [id |-> CardId(deck_id, i), front |-> card.front, back |-> card.back,
   interval |-> InitialInterval, ease |-> InitialEase, due |-> None,
   reps |-> 0]

CardInputs(n) == [i \in 1 .. n |-> [front |-> "q", back |-> "a"]]

NewDeck(deck_id, name, source, cards) ==
  [id |-> deck_id, name |-> name, source |-> source,
   cards |-> [i \in 1 .. Len(cards) |-> InitialCard(deck_id, i - 1, cards[i])]]

IndexEntry(deck_data) ==
  [id |-> deck_data.id, name |-> deck_data.name, source |-> deck_data.source,
   cardCount |-> Len(deck_data.cards)]

(* create_deck_after with the index written before the deck record *)
create_deck_after_IndexFirst(fs, name, h, n, written) ==
  LET deck_id == generate_deck_id(name, h)
      deck_data == NewDeck(deck_id, name, "manual", CardInputs(n))
      data == load_decks(fs)
      indexed == save_decks(fs, [data EXCEPT !.decks = Append(@, IndexEntry(deck_data))])
  IN  IF written = 0 THEN fs
      ELSE IF written = 1 THEN indexed
      ELSE save_deck(indexed, deck_id, deck_data)

(* create_deck: the directory once `written` of its two writes are done *)
create_deck_after(fs, name, h, n, written) ==
  LET deck_id == generate_deck_id(name, h)
      deck_data == NewDeck(deck_id, name, "manual", CardInputs(n))
      saved == save_deck(fs, deck_id, deck_data)
      data == load_decks(saved)
  IN  IF written = 0 THEN fs
      ELSE IF written = 1 THEN saved
      ELSE save_decks(saved, [data EXCEPT !.decks = Append(@, IndexEntry(deck_data))])

(* create_deck: the directory after the call *)
create_deck(fs, name, h, n) == create_deck_after(fs, name, h, n, 2)

CreateDeck(name, h, n) ==
  /\ files' = create_deck(files, name, h, n)
  /\ UNCHANGED <<now, reviews, procs>>

(* create_deck killed after `written` of its two writes *)
CreateDeckCrash(name, h, n, written) ==
  /\ files' = create_deck_after(files, name, h, n, written)
  /\ UNCHANGED <<now, reviews, procs>>

(* update_card: what the call raises, "none" when it returns the card *)
update_card_raises(fs, deck_id, card_id, rating) ==
  LET deck == load_deck(fs, deck_id)
  IN  IF IsNone(deck) THEN "ValueError: Deck not found"
      ELSE IF "cards" \notin DOMAIN deck THEN "KeyError: cards"
      ELSE IF FindCard(deck.cards, card_id) = 0 THEN "ValueError: Card not found"
      ELSE "none"

(* update_card that reschedules every card of the deck *)
update_card_WholeDeck(fs, deck_id, card_id, rating, t) ==
  LET deck == load_deck(fs, deck_id)
      cards == [i \in 1 .. Len(deck.cards) |-> ReviewedCard(deck.cards[i], rating, t)]
      saved == save_deck(fs, deck_id, [deck EXCEPT !.cards = cards])
      data == load_decks(saved)
  IN  IF update_card_raises(fs, deck_id, card_id, rating) # "none" THEN fs
      ELSE save_decks(saved, [data EXCEPT !.stats = NextStats(@, DateOf(t))])

(* update_card: the directory after the call *)
update_card(fs, deck_id, card_id, rating, t) ==
  LET deck == load_deck(fs, deck_id)
      card_idx == FindCard(deck.cards, card_id)
      card == ReviewedCard(deck.cards[card_idx], rating, t)
      saved == save_deck(fs, deck_id, [deck EXCEPT !.cards[card_idx] = card])
      data == load_decks(saved)
  IN  IF update_card_raises(fs, deck_id, card_id, rating) # "none" THEN fs
      ELSE save_decks(saved, [data EXCEPT !.stats = NextStats(@, DateOf(t))])

UpdateCard(deck_id, card_id, rating) ==
  /\ files' = update_card(files, deck_id, card_id, rating, now)
  /\ reviews' = IF update_card_raises(files, deck_id, card_id, rating) = "none"
                THEN reviews + 1 ELSE reviews
  /\ UNCHANGED <<now, procs>>

(* delete_deck: the directory after the call *)
delete_deck(fs, deck_id) ==
  LET removed == IF DeckExists(fs, deck_id) THEN unlink(fs, deck_id) ELSE fs
      data == load_decks(removed)
  IN  save_decks(removed,
        [data EXCEPT !.decks = SelectSeq(@, LAMBDA d : d.id # deck_id)])

(* delete_deck: what the call returns; it has no raise *)
delete_deck_returns(fs, deck_id) == "True"

DeleteDeck(deck_id) ==
  /\ files' = delete_deck(files, deck_id)
  /\ UNCHANGED <<now, reviews, procs>>

(* delete_deck: the directory once `written` of its two changes (the     *)
(* unlink of line 310, the save_decks of line 314) are done              *)
delete_deck_after(fs, deck_id, written) ==
  LET removed == IF DeckExists(fs, deck_id) THEN unlink(fs, deck_id) ELSE fs
  IN  IF written = 0 THEN fs
      ELSE IF written = 1 THEN removed
      ELSE delete_deck(fs, deck_id)

(* delete_deck killed after `written` of its two changes *)
DeleteDeckCrash(deck_id, written) ==
  /\ files' = delete_deck_after(files, deck_id, written)
  /\ UNCHANGED <<now, reviews, procs>>

----------------------------------------------------------------------------
(* Queries.  They write nothing. *)

(* the due test of get_due_cards and get_dashboard_data *)
IsDue(card, t) == card.due = None \/ card.due <= t

(* get_due_cards with a card due only after its due time has passed *)
DueIn_Strict(deck, deck_id, t) ==
  LET due == SelectSeq(deck.cards, LAMBDA card : card.due = None \/ card.due < t)
  IN  [i \in 1 .. Len(due) |->
         [deck_id |-> deck_id, deck_name |-> deck.name] @@ due[i]]

(* get_due_cards with the cards of a deck taken last to first *)
DueIn_Reversed(deck, deck_id, t) ==
  LET due == SelectSeq(deck.cards, LAMBDA card : IsDue(card, t))
  IN  [i \in 1 .. Len(due) |->
         [deck_id |-> deck_id, deck_name |-> deck.name] @@ due[Len(due) + 1 - i]]

(* get_due_cards, the inner loop: the due cards of one deck, in the      *)
(* deck's order, each with deck_id and deck_name added                   *)
DueIn(deck, deck_id, t) ==
  LET due == SelectSeq(deck.cards, LAMBDA card : IsDue(card, t))
  IN  [i \in 1 .. Len(due) |->
         [deck_id |-> deck_id, deck_name |-> deck.name] @@ due[i]]

RECURSIVE DueAcross(_, _, _)
(* get_due_cards, the loop over the index entries *)
DueAcross(fs, metas, t) ==
  IF metas = << >> THEN << >>
  ELSE LET deck == load_deck(fs, Head(metas).id)
       IN  (IF IsNone(deck) THEN << >> ELSE DueIn(deck, Head(metas).id, t))
             \o DueAcross(fs, Tail(metas), t)

(* an index entry whose file loads as a document without cards: the     *)
(* loops over the index raise on deck["cards"] there; an entry whose     *)
(* file is missing loads as None and is passed over                      *)
EntryWithoutCards(fs) ==
  \E i \in 1 .. Len(load_decks(fs).decks) :
    LET deck == load_deck(fs, load_decks(fs).decks[i].id)
    IN  ~IsNone(deck) /\ "cards" \notin DOMAIN deck

(* get_due_cards: what the call raises, "none" when it returns a list *)
get_due_cards_raises(fs, deck_id) ==
  IF deck_id = NoFilter
  THEN IF EntryWithoutCards(fs) THEN "KeyError: cards" ELSE "none"
  ELSE LET deck == load_deck(fs, deck_id)
       IN  IF ~IsNone(deck) /\ "cards" \notin DOMAIN deck
           THEN "KeyError: cards" ELSE "none"

(* get_due_cards: the list returned at time t *)
get_due_cards(fs, deck_id, t) ==
  IF deck_id # NoFilter
  THEN LET deck == load_deck(fs, deck_id)
       IN  IF IsNone(deck) THEN << >> ELSE DueIn(deck, deck_id, t)
  ELSE DueAcross(fs, load_decks(fs).decks, t)

(* get_dashboard_data: the summary of one deck *)
DeckSummary(deck_meta, deck, t) ==
  [id |-> deck_meta.id, name |-> deck_meta.name, source |-> deck_meta.source,
   cardCount |-> Len(deck.cards),
   due |-> Len(SelectSeq(deck.cards, LAMBDA card : card.due # None /\ card.due <= t)),
   new |-> Len(SelectSeq(deck.cards, LAMBDA card : card.due = None)),
   mastered |-> Len(SelectSeq(deck.cards, LAMBDA card : card.interval > MasteredDays))]

(* DeckSummary that counts no new card as due *)
DueOfSummary_NoNew(summary) == summary.due

(* get_dashboard_data: what one deck adds to due_today *)
DueOfSummary(summary) == summary.new + summary.due

RECURSIVE DeckSummaries_NoSkip(_, _, _)
(* DeckSummaries with an empty summary for an entry whose record is      *)
(* missing                                                               *)
DeckSummaries_NoSkip(fs, metas, t) ==
  IF metas = << >> THEN << >>
  ELSE LET deck == load_deck(fs, Head(metas).id)
       IN  <<DeckSummary(Head(metas),
                         IF IsNone(deck) THEN [cards |-> << >>] ELSE deck, t)>>
             \o DeckSummaries_NoSkip(fs, Tail(metas), t)

RECURSIVE DeckSummaries(_, _, _)
(* get_dashboard_data, the loop over the index entries *)
DeckSummaries(fs, metas, t) ==
  IF metas = << >> THEN << >>
  ELSE LET deck == load_deck(fs, Head(metas).id)
       IN  (IF IsNone(deck) THEN << >>
            ELSE <<DeckSummary(Head(metas), deck, t)>>)
             \o DeckSummaries(fs, Tail(metas), t)

RECURSIVE SumSeq(_)
SumSeq(ints) == IF ints = << >> THEN 0 ELSE Head(ints) + SumSeq(Tail(ints))

(* get_dashboard_data: what the call raises, "none" when it returns *)
get_dashboard_data_raises(fs) ==
  IF EntryWithoutCards(fs) THEN "KeyError: cards" ELSE "none"

(* get_dashboard_data: the document returned at time t *)
get_dashboard_data(fs, t) ==
  LET data == load_decks(fs)
      deck_summaries == DeckSummaries(fs, data.decks, t)
      n == Len(deck_summaries)
  IN  [totalCards |-> SumSeq([i \in 1 .. n |-> deck_summaries[i].cardCount]),
       dueToday |-> SumSeq([i \in 1 .. n |-> DueOfSummary(deck_summaries[i])]),
       mastered |-> SumSeq([i \in 1 .. n |-> deck_summaries[i].mastered]),
       streak |-> data.stats.streak,
       decks |-> deck_summaries,
       activity |-> Activity(data.stats)]

----------------------------------------------------------------------------
(* The store: every operation, on every id a caller can pass *)

IndexRoom(fs) == Len(load_decks(fs).decks) < MaxDecks

Next ==
  \/ now < MaxNow /\ Tick
  \/ \E name \in Names, h \in HashSuffixes, n \in 0 .. MaxCards :
       IndexRoom(files) /\ CreateDeck(name, h, n)
  \/ \E d \in DeckIdArgs, c \in CardIdArgs, r \in RatingArgs :
       reviews < MaxReviews /\ UpdateCard(d, c, r)
  \/ \E d \in DeckIdArgs : DeleteDeck(d)

Spec == Init /\ [][Next]_vars

----------------------------------------------------------------------------
(* The store, with create_deck calls that a crash cuts short *)

CrashNext ==
  \/ \E name \in Names, h \in HashSuffixes, n \in 0 .. MaxCards :
       IndexRoom(files) /\ CreateDeck(name, h, n)
  \/ \E d \in DeckIdArgs, c \in CardIdArgs, r \in RatingArgs :
       reviews < MaxReviews /\ UpdateCard(d, c, r)
  \/ \E d \in DeckIdArgs : DeleteDeck(d)
  \/ \E name \in Names, h \in HashSuffixes, n \in 0 .. MaxCards, written \in 0 .. 1 :
       CreateDeckCrash(name, h, n, written)

CrashSpec == Init /\ [][CrashNext]_vars

----------------------------------------------------------------------------
(* One deck of one card, reviewed again and again at one instant *)

TheName == "Bio"
TheHash == "0a1b2c"
TheDeck == generate_deck_id(TheName, TheHash)
TheCard == CardId(TheDeck, 0)

ReviewNext ==
  \/ files = << >> /\ CreateDeck(TheName, TheHash, 1)
  \/ \E r \in RatingArgs : reviews < MaxCardReviews /\ UpdateCard(TheDeck, TheCard, r)

ReviewSpec == Init /\ [][ReviewNext]_vars

----------------------------------------------------------------------------
(* One deck of one card, reviewed over several days *)

StudyNext ==
  \/ now < MaxStudyNow /\ Tick
  \/ files = << >> /\ CreateDeck(TheName, TheHash, 1)
  \/ \E r \in RatingArgs : reviews < MaxStudyReviews /\ UpdateCard(TheDeck, TheCard, r)

StudySpec == Init /\ [][StudyNext]_vars

----------------------------------------------------------------------------
(* update_card as the four file accesses it is made of, for processes    *)
(* that run side by side on one directory                                *)

(* lines 169-223: read the deck, find the card, reschedule it in memory *)
UpdateCardLoadDeck(p, deck_id, card_id, rating) ==
  /\ procs[p].pc = "idle"
  /\ update_card_raises(files, deck_id, card_id, rating) = "none"
  /\ LET deck == load_deck(files, deck_id)
         card_idx == FindCard(deck.cards, card_id)
         card == ReviewedCard(deck.cards[card_idx], rating, now)
     IN  procs' = [procs EXCEPT ![p] =
                     [pc |-> "save_deck", deck_id |-> deck_id,
                      card_id |-> card_id,
                      deck |-> [deck EXCEPT !.cards[card_idx] = card]]]
  /\ UNCHANGED <<files, now, reviews>>

(* line 224: write the whole deck document back *)
UpdateCardSaveDeck(p) ==
  /\ procs[p].pc = "save_deck"
  /\ files' = save_deck(files, procs[p].deck_id, procs[p].deck)
  /\ reviews' = reviews + 1
  /\ procs' = [procs EXCEPT ![p].pc = "load_decks"]
  /\ UNCHANGED now

(* lines 227-246: read the index document, count the review in memory *)
UpdateCardLoadDecks(p) ==
  /\ procs[p].pc = "load_decks"
  /\ LET data == load_decks(files)
     IN  procs' = [procs EXCEPT ![p] =
                     [pc |-> "save_decks", deck_id |-> procs[p].deck_id,
                      card_id |-> procs[p].card_id, deck |-> procs[p].deck,
                      data |-> [data EXCEPT !.stats = NextStats(@, DateOf(now))]]]
  /\ UNCHANGED <<files, now, reviews>>

(* line 248: write the whole index document back *)
UpdateCardSaveDecks(p) ==
  /\ procs[p].pc = "save_decks"
  /\ files' = save_decks(files, procs[p].data)
  /\ procs' = [procs EXCEPT ![p].pc = "done"]
  /\ UNCHANGED <<now, reviews>>

RaceCardIds == {CardId(TheDeck, i) : i \in 0 .. RaceCards - 1}

RaceNext ==
  \/ files = << >> /\ CreateDeck(TheName, TheHash, RaceCards)
  \/ \E p \in Procs, c \in RaceCardIds, r \in RatingArgs :
       UpdateCardLoadDeck(p, TheDeck, c, r)
  \/ \E p \in Procs : UpdateCardSaveDeck(p)
  \/ \E p \in Procs : UpdateCardLoadDecks(p)
  \/ \E p \in Procs : UpdateCardSaveDecks(p)

RaceSpec == Init /\ [][RaceNext]_vars

----------------------------------------------------------------------------
(* Several decks of several cards, studied over several days.  The hash  *)
(* suffix of a new deck, an md5 prefix of the name and the creation      *)
(* time, is one that no deck in the directory or the index carries.      *)

(* the cards each deck is created with: a first and a second card *)
ShelfCards == CardInputs(2)

(* the card ids of a deck, the ones update_card is called with here *)
ShelfCardIds(deck_id) == {CardId(deck_id, i) : i \in 0 .. Len(ShelfCards) - 1}

(* Again, which schedules a card for the next day, and Easy, which puts  *)
(* it four days off                                                      *)
ShelfRatings == {0, 3}

IdInUse(fs, deck_id) ==
  \/ deck_id \in DOMAIN fs
  \/ \E i \in 1 .. Len(load_decks(fs).decks) : load_decks(fs).decks[i].id = deck_id

ShelfNext ==
  \/ now < MaxShelfNow /\ Tick
  \/ \E name \in Names, h \in HashSuffixes :
       /\ Len(load_decks(files).decks) < MaxShelfDecks
       /\ ~IdInUse(files, generate_deck_id(name, h))
       /\ CreateDeck(name, h, Len(ShelfCards))
  \/ \E d \in DeckIds : \E c \in ShelfCardIds(d), r \in ShelfRatings :
       reviews < MaxShelfReviews /\ UpdateCard(d, c, r)
  \/ \E d \in DeckIdArgs : DeleteDeck(d)

ShelfSpec == Init /\ [][ShelfNext]_vars

(* The same decks, created and studied and none deleted *)
SessionNext ==
  \/ now < MaxShelfNow /\ Tick
  \/ \E name \in Names, h \in HashSuffixes :
       /\ Len(load_decks(files).decks) < MaxShelfDecks
       /\ ~IdInUse(files, generate_deck_id(name, h))
       /\ CreateDeck(name, h, Len(ShelfCards))
  \/ \E d \in DeckIds : \E c \in ShelfCardIds(d), r \in ShelfRatings :
       reviews < MaxShelfReviews /\ UpdateCard(d, c, r)

SessionSpec == Init /\ [][SessionNext]_vars

----------------------------------------------------------------------------
(* Decks created, studied and deleted, with delete_deck calls that a     *)
(* crash cuts short                                                      *)

AbortNext ==
  \/ now < MaxShelfNow /\ Tick
  \/ \E name \in Names, h \in HashSuffixes :
       /\ Len(load_decks(files).decks) < MaxShelfDecks
       /\ ~IdInUse(files, generate_deck_id(name, h))
       /\ CreateDeck(name, h, Len(ShelfCards))
  \/ \E d \in DeckIds : \E c \in ShelfCardIds(d), r \in ShelfRatings :
       reviews < MaxShelfReviews /\ UpdateCard(d, c, r)
  \/ \E d \in DeckIdArgs : DeleteDeck(d)
  \/ \E d \in DeckIdArgs, written \in 0 .. 1 : DeleteDeckCrash(d, written)

AbortSpec == Init /\ [][AbortNext]_vars

----------------------------------------------------------------------------
(* What the claims observe *)

Stats == load_decks(files).stats

StatsActivityOn(day) == ActivityOn(Stats, day)

IndexIds == {load_decks(files).decks[i].id : i \in 1 .. Len(load_decks(files).decks)}

DeckRecords == DOMAIN files \ {IndexFile}

HasCard(deck_id, card_id) ==
  /\ deck_id \in DOMAIN files
  /\ "cards" \in DOMAIN files[deck_id]
  /\ FindCard(files[deck_id].cards, card_id) # 0

CardOf(deck_id, card_id) ==
  files[deck_id].cards[FindCard(files[deck_id].cards, card_id)]

(* card.get("lastRating") *)
LastRating(card) == IF "lastRating" \in DOMAIN card THEN card.lastRating ELSE None

StoredCards ==
  UNION {{files[d].cards[i] : i \in 1 .. Len(files[d].cards)} : d \in DeckRecords}

Reviewed(deck_id, card_id, rating) ==
  HasCard(deck_id, card_id) /\ UpdateCard(deck_id, card_id, rating)

CardsOf(deck_id) == files[deck_id].cards

(* the card ids in a list that get_due_cards returned *)
ReturnedIds(due_cards) == {due_cards[i].id : i \in 1 .. Len(due_cards)}

----------------------------------------------------------------------------
(* Claims *)

(* C1: after every review with a rating in {0,1,2,3} (and at any other   *)
(* time) every stored card has ease >= 1.3.                              *)
C1_EaseFloor == \A card \in StoredCards : card.ease >= 130

(* seven reviews, the last one Again on a card already at the floor *)
C1_Witness ==
  /\ reviews = 7
  /\ HasCard(TheDeck, TheCard)
  /\ CardOf(TheDeck, TheCard).ease = 130
  /\ LastRating(CardOf(TheDeck, TheCard)) = 0
  /\ CardOf(TheDeck, TheCard).interval = 1

(* C2: update_card with a rating outside {0,1,2,3} on an existing deck   *)
(* and card signals InvalidRating and changes nothing in the store.      *)
C2_InvalidRatingRejected ==
  [][\A d \in DeckIds, c \in CardIdArgs, r \in RatingArgs \ Ratings :
       Reviewed(d, c, r) =>
         /\ update_card_raises(files, d, c, r) = "InvalidRating"
         /\ files' = files]_vars

(* C3: a review with Again leaves reps = 0; a review with Hard, Good or  *)
(* Easy leaves reps one more than before.                                *)
C3_RepsReset ==
  [][\A d \in DeckIds, c \in CardIdArgs, r \in Ratings :
       Reviewed(d, c, r) =>
         CardOf(d, c)'.reps = IF r = 0 THEN 0 ELSE CardOf(d, c).reps + 1]_vars

(* three reviews, Hard on top of two repetitions *)
C3_Witness ==
  /\ reviews = 3
  /\ HasCard(TheDeck, TheCard)
  /\ LastRating(CardOf(TheDeck, TheCard)) = 1
  /\ CardOf(TheDeck, TheCard).reps = 3

(* C4: with reps >= 2 before the review, Good and Easy never shorten the *)
(* interval.                                                            *)
C4_IntervalGrows ==
  [][\A d \in DeckIds, c \in CardIdArgs, r \in {2, 3} :
       (Reviewed(d, c, r) /\ CardOf(d, c).reps >= 2) =>
         CardOf(d, c)'.interval >= CardOf(d, c).interval]_vars

(* Good on a card with three repetitions, the product truncated from     *)
(* 6 * 2.5 * 2.5 = 37.5                                                  *)
C4_Witness ==
  /\ HasCard(TheDeck, TheCard)
  /\ LastRating(CardOf(TheDeck, TheCard)) = 2
  /\ CardOf(TheDeck, TheCard).reps = 4
  /\ CardOf(TheDeck, TheCard).interval = 37

FreshCard(card) ==
  card.interval = 1 /\ card.ease = 250 /\ card.reps = 0 /\ card.due = None

Scheduled(card, interval, ease, reps) ==
  card.interval = interval /\ card.ease = ease /\ card.reps = reps

(* C5: Good three times on a fresh card gives intervals 1, 6, 15, reps   *)
(* 1, 2, 3 and leaves ease at 2.5.                                       *)
C5_GoodProgression ==
  [][Reviewed(TheDeck, TheCard, 2) =>
       LET card == CardOf(TheDeck, TheCard)
           after == CardOf(TheDeck, TheCard)'
       IN  /\ FreshCard(card) => Scheduled(after, 1, 250, 1)
           /\ (reviews = 1 /\ LastRating(card) = 2 /\ Scheduled(card, 1, 250, 1))
                => Scheduled(after, 6, 250, 2)
           /\ (reviews = 2 /\ LastRating(card) = 2 /\ Scheduled(card, 6, 250, 2))
                => Scheduled(after, 15, 250, 3)]_vars

C5_Witness ==
  /\ reviews = 3
  /\ HasCard(TheDeck, TheCard)
  /\ LastRating(CardOf(TheDeck, TheCard)) = 2
  /\ Scheduled(CardOf(TheDeck, TheCard), 15, 250, 3)

(* C6: a review on day D with lastStudy L: streak + 1 when L = D - 1,    *)
(* streak 1 when D - L > 1 or there is no L, streak unchanged when       *)
(* L = D; lastStudy is D afterwards.                                     *)
C6_Streak ==
  [][reviews' = reviews + 1 =>
       LET L == Stats.lastStudy
           D == DateOf(now)
       IN  /\ (L # None /\ D - L = 1) => Stats'.streak = Stats.streak + 1
           /\ (L = None \/ D - L > 1) => Stats'.streak = 1
           /\ (L # None /\ L = D) => Stats'.streak = Stats.streak
           /\ Stats'.lastStudy = D]_vars

(* a review on day 0 and none on day 1, then a review on day 2 *)
C6_Witness ==
  /\ Stats.lastStudy = 2
  /\ Stats.streak = 1
  /\ StatsActivityOn(0) >= 1
  /\ StatsActivityOn(1) = 0

(* C7: every review that is saved adds 1 to totalReviews and 1 to        *)
(* activity[today]; no operation decreases totalReviews.                 *)
C7_ReviewsCounted ==
  [][/\ Stats'.totalReviews >= Stats.totalReviews
     /\ reviews' = reviews + 1 =>
          /\ Stats'.totalReviews = Stats.totalReviews + 1
          /\ StatsActivityOn(DateOf(now))' = StatsActivityOn(DateOf(now)) + 1]_vars

(* C8: after any sequence of completed operations every index entry has  *)
(* a deck record and every deck record has an index entry.               *)
C8_IndexConsistent == IndexIds = DeckRecords

NoDanglingEntry == IndexIds \subseteq DeckRecords

(* C9: no index entry is ever without its deck record, and a            *)
(* create_deck cut short by a crash leaves the index as it was and       *)
(* touches no record but the new deck's: at most an orphan record.       *)
C9_CrashLeavesOrphan ==
  /\ []NoDanglingEntry
  /\ [][(reviews' = reviews /\ files' # files) =>
          \A name \in Names, h \in HashSuffixes, n \in 0 .. MaxCards, written \in 0 .. 1 :
            CreateDeckCrash(name, h, n, written) =>
              /\ IndexExists(files') = IndexExists(files)
              /\ load_decks(files') = load_decks(files)
              /\ \A f \in (DOMAIN files \cup DOMAIN files') \ {generate_deck_id(name, h)} :
                   f \in DOMAIN files /\ f \in DOMAIN files' /\ files'[f] = files[f]]_vars

(* a deck record in a directory whose index was never written *)
C9_Witness == DeckRecords # {} /\ ~IndexExists(files)

(* C10: delete_deck(id), for an id with or without a deck, returns True, *)
(* leaves no record and no index entry for id, and leaves every other    *)
(* deck's record and index entries as they were.                         *)
C10_DeleteIdempotent ==
  [][\A d \in DeckIdArgs :
       DeleteDeck(d) =>
         /\ delete_deck_returns(files, d) = "True"
         /\ d \notin DeckRecords'
         /\ d \notin IndexIds'
         /\ \A o \in DeckRecords \ {d} : o \in DeckRecords' /\ files'[o] = files[o]
         /\ \A o \in IndexIds \ {d} : o \in IndexIds']_vars

(* C11: every card with due = null in a deck that was created and not    *)
(* deleted since is returned by get_due_cards(deck_id) and by            *)
(* get_due_cards(), at any time and after any operations.                *)
C11_FreshCardsDue ==
  \A d \in DeckRecords : \A i \in 1 .. Len(CardsOf(d)) :
    CardsOf(d)[i].due = None =>
      /\ get_due_cards_raises(files, d) = "none"
      /\ CardsOf(d)[i].id \in ReturnedIds(get_due_cards(files, d, now))
      /\ CardsOf(d)[i].id \in ReturnedIds(get_due_cards(files, NoFilter, now))

(* C12: update_card on a deck id without a deck record signals that the  *)
(* deck was not found, and on a deck without the card id that the card   *)
(* was not found; in both cases the directory (records, index and stats) *)
(* is left as it was.                                                    *)
C12_NotFoundChangesNothing ==
  \A d \in DeckIdArgs, c \in CardIdArgs, r \in Ratings :
    /\ d \notin DeckRecords =>
         /\ update_card_raises(files, d, c, r) = "ValueError: Deck not found"
         /\ update_card(files, d, c, r, now) = files
    /\ (d \in DeckRecords /\ ~HasCard(d, c)) =>
         /\ update_card_raises(files, d, c, r) = "ValueError: Card not found"
         /\ update_card(files, d, c, r, now) = files

(* process p is past the save_deck of its update_card *)
HasSaved(p) == procs[p].pc \in {"load_decks", "save_decks", "done"}

IsReviewed(card) == "lastReview" \in DOMAIN card

(* p and q review different cards, and each read the deck before the     *)
(* other wrote it                                                        *)
Interleaved(p, q) ==
  /\ p # q /\ HasSaved(p) /\ HasSaved(q)
  /\ procs[p].card_id # procs[q].card_id
  /\ ~IsReviewed(procs[p].deck.cards[FindCard(procs[p].deck.cards, procs[q].card_id)])
  /\ ~IsReviewed(procs[q].deck.cards[FindCard(procs[q].deck.cards, procs[p].card_id)])

(* C13: when two processes run update_card on different cards of one     *)
(* deck and each loads the deck before the other saves it, the deck      *)
(* record is the document of the last writer: it holds that process's    *)
(* card update, and the other card is as it was before either review.    *)
C13_LostUpdate ==
  \A p, q \in Procs :
    Interleaved(p, q) =>
      /\ files[TheDeck] \in {procs[p].deck, procs[q].deck}
      /\ IsReviewed(CardOf(TheDeck, procs[p].card_id))
           # IsReviewed(CardOf(TheDeck, procs[q].card_id))

(* both calls have returned, two reviews were saved, and the record      *)
(* holds one reviewed card                                               *)
C13_Witness ==
  /\ reviews = 2
  /\ \A p \in Procs : procs[p].pc = "done"
  /\ procs["A"].card_id # procs["B"].card_id
  /\ IsReviewed(CardOf(TheDeck, procs["B"].card_id))
  /\ ~IsReviewed(CardOf(TheDeck, procs["A"].card_id))
  /\ Stats.totalReviews \in {1, 2}

(* get_due_cards() at the present instant *)
DueNow == get_due_cards(files, NoFilter, now)

(* the position of the index entry of a deck *)
IndexPos(deck_id) ==
  CHOOSE i \in 1 .. Len(load_decks(files).decks) :
    load_decks(files).decks[i].id = deck_id

(* the position of a returned card in its deck *)
CardPos(due_card) == FindCard(CardsOf(due_card.deck_id), due_card.id)

(* the ids of a returned list, in its order, without one card *)
IdsWithout(due_cards, card_id) ==
  LET rest == SelectSeq(due_cards, LAMBDA card : card.id # card_id)
  IN  [i \in 1 .. Len(rest) |-> rest[i].id]

(* C14: get_due_cards() lists the due cards by the position of their     *)
(* deck in the index and then by their position in the deck, whatever    *)
(* their due dates; a review leaves the other due cards in the order     *)
(* they had.                                                             *)
C14_DueOrder ==
  /\ [](LET due == DueNow
             at == [i \in 1 .. Len(due) |->
                      <<IndexPos(due[i].deck_id), CardPos(due[i])>>]
         IN  \A i \in 1 .. Len(due) - 1 :
               \/ at[i][1] < at[i + 1][1]
               \/ at[i][1] = at[i + 1][1] /\ at[i][2] < at[i + 1][2])
  /\ [][reviews' = reviews + 1 =>
          \A d \in DeckIds : \A c \in ShelfCardIds(d), r \in ShelfRatings :
            Reviewed(d, c, r) =>
              IdsWithout(get_due_cards(files', NoFilter, now'), c)
                = IdsWithout(DueNow, c)]_vars

(* two reviewed cards are due, and the one listed first is due later *)
C14_Witness ==
  \E i, j \in 1 .. Len(DueNow) :
    /\ i < j
    /\ DueNow[j].due # None
    /\ DueNow[i].due > DueNow[j].due

(* get_dashboard_data() at the present instant *)
DashboardNow == get_dashboard_data(files, now)

(* C15: in every state and at every instant (the present one, and the    *)
(* last one of the model), dueToday of the dashboard is the number of    *)
(* cards that get_due_cards() returns at that instant: the cards never   *)
(* reviewed and the cards with due <= now.                               *)
C15_DueTodayMatches ==
  \A t \in {now, MaxShelfNow} :
    LET due_today == get_dashboard_data(files, t).dueToday
    IN  /\ due_today = Len(get_due_cards(files, NoFilter, t))
        /\ due_today
             = Cardinality({<<d, i>> \in IndexIds \X (1 .. Len(ShelfCards)) :
                              d \in DeckRecords /\ IsDue(CardsOf(d)[i], t)})

(* a deck with a new card and a card due again, and a card elsewhere     *)
(* that is not due                                                       *)
C15_Witness ==
  /\ \E i \in 1 .. Len(DashboardNow.decks) :
       DashboardNow.decks[i].new >= 1 /\ DashboardNow.decks[i].due >= 1
  /\ DashboardNow.dueToday = 3
  /\ DashboardNow.totalCards = 4

(* C16: after every review with a rating in {0,1,2,3}, whatever the      *)
(* reviews before it, the interval of the card is an integer >= 1.       *)
C16_IntervalPositive ==
  /\ [](\A card \in StoredCards : card.interval \in Nat /\ card.interval >= 1)
  /\ [][reviews' = reviews + 1 =>
          \A r \in Ratings :
            Reviewed(TheDeck, TheCard, r) =>
              /\ CardOf(TheDeck, TheCard)'.interval \in Nat
              /\ CardOf(TheDeck, TheCard)'.interval >= 1]_vars

(* Hard on a one-day interval, int(1 * 1.2) = 1, after Again on a card   *)
(* that had grown past one day                                           *)
C16_Witness ==
  /\ reviews >= 4
  /\ HasCard(TheDeck, TheCard)
  /\ LastRating(CardOf(TheDeck, TheCard)) = 1
  /\ CardOf(TheDeck, TheCard).interval = 1
  /\ CardOf(TheDeck, TheCard).reps = 1
  /\ CardOf(TheDeck, TheCard).ease = 215

RECURSIVE DaysInARow(_, _)
(* the number of days in a row, ending at day and going back, that each  *)
(* have an activity count >= 1                                           *)
DaysInARow(stats, day) ==
  IF day < 0 \/ ActivityOn(stats, day) < 1 THEN 0
  ELSE 1 + DaysInARow(stats, day - 1)

(* C17: from empty stats and with a clock that never goes back, after    *)
(* any successful reviews the stored streak is the number of calendar    *)
(* days in a row, ending at lastStudy, with an activity count >= 1.      *)
C17_StreakIsRun ==
  /\ Stats.lastStudy = None => Stats.streak = 0
  /\ Stats.lastStudy # None => Stats.streak = DaysInARow(Stats, Stats.lastStudy)

(* reviews on days 1 and 2 and none on day 0; two of them on one day *)
C17_Witness ==
  /\ Stats.lastStudy = 2
  /\ Stats.streak = 2
  /\ StatsActivityOn(0) = 0
  /\ Stats.totalReviews = 3

(* the card of the one deck is in the list get_due_cards returns, with   *)
(* the deck id and without it                                            *)
TheCardIsDue(fs, t) ==
  /\ TheCard \in ReturnedIds(get_due_cards(fs, TheDeck, t))
  /\ TheCard \in ReturnedIds(get_due_cards(fs, NoFilter, t))

TheCardIsNotDue(fs, t) ==
  /\ TheCard \notin ReturnedIds(get_due_cards(fs, TheDeck, t))
  /\ TheCard \notin ReturnedIds(get_due_cards(fs, NoFilter, t))

(* C18: right after a review the card has due = now + interval days and  *)
(* get_due_cards does not return it; it returns the card again exactly   *)
(* from the instant the clock reaches due, at least a full day after     *)
(* the review.                                                           *)
C18_DueAfterInterval ==
  /\ [](\A card \in StoredCards :
          IsReviewed(card) =>
            /\ card.due = PlusDays(card.lastReview, card.interval)
            /\ card.due >= card.lastReview + TicksPerDay
            /\ now >= card.due => TheCardIsDue(files, now)
            /\ now < card.due => TheCardIsNotDue(files, now))
  /\ [][reviews' = reviews + 1 =>
          \A r \in Ratings :
            Reviewed(TheDeck, TheCard, r) =>
              /\ CardOf(TheDeck, TheCard)'.due
                   = PlusDays(now, CardOf(TheDeck, TheCard)'.interval)
              /\ TheCardIsNotDue(files', now')]_vars

(* the clock stands at the due time of the reviewed card, and the card   *)
(* is in the list again                                                  *)
C18_Witness ==
  /\ HasCard(TheDeck, TheCard)
  /\ IsReviewed(CardOf(TheDeck, TheCard))
  /\ now = CardOf(TheDeck, TheCard).due
  /\ TheCardIsDue(files, now)

RECURSIVE SumOfCounts(_)
(* sum(activity.values()) *)
SumOfCounts(activity) ==
  IF DOMAIN activity = {} THEN 0
  ELSE LET day == CHOOSE k \in DOMAIN activity : TRUE
       IN  activity[day]
             + SumOfCounts([k \in DOMAIN activity \ {day} |-> activity[k]])

(* C19: from an empty directory, after any completed create_deck,        *)
(* delete_deck and update_card calls, totalReviews is the sum of the     *)
(* counts in the activity mapping.                                       *)
C19_TotalIsActivitySum == Stats.totalReviews = SumOfCounts(Activity(Stats))

(* reviews on two days, counted after the reviewed deck was deleted *)
C19_Witness ==
  /\ Stats.totalReviews = 2
  /\ Cardinality(DOMAIN Activity(Stats)) = 2
  /\ DeckRecords = {}
  /\ IndexIds = {}

(* the fields update_card assigns, lines 216-221 *)
ScheduleFields == {"interval", "ease", "reps", "due", "lastReview", "lastRating"}

(* between two versions of a card only the schedule fields differ *)
SameButSchedule(before, after) ==
  /\ DOMAIN before \ ScheduleFields = DOMAIN after \ ScheduleFields
  /\ \A f \in DOMAIN before \ ScheduleFields : after[f] = before[f]
  /\ after.id = before.id /\ after.front = before.front /\ after.back = before.back

(* C20: a successful update_card(deck_id, card_id, rating) changes only  *)
(* interval, ease, reps, due, lastReview and lastRating of that card:    *)
(* its id, front and back, the other cards, the number and order of the  *)
(* cards, the other deck records and the deck entries of the index stay  *)
(* as they were.                                                         *)
C20_ReviewFrame ==
  [][reviews' = reviews + 1 =>
       \A d \in DeckIds : \A c \in ShelfCardIds(d), r \in ShelfRatings :
         Reviewed(d, c, r) =>
           /\ DOMAIN files' = DOMAIN files \cup {IndexFile}
           /\ \A o \in DeckRecords \ {d} : files'[o] = files[o]
           /\ load_decks(files').decks = load_decks(files).decks
           /\ [files'[d] EXCEPT !.cards = << >>] = [files[d] EXCEPT !.cards = << >>]
           /\ Len(files'[d].cards) = Len(CardsOf(d))
           /\ \A i \in 1 .. Len(CardsOf(d)) :
                IF i = FindCard(CardsOf(d), c)
                THEN SameButSchedule(CardsOf(d)[i], files'[d].cards[i])
                ELSE files'[d].cards[i] = CardsOf(d)[i]]_vars

(* two indexed decks of two cards; in one of them one card is reviewed   *)
(* and the other is as created                                           *)
C20_Witness ==
  /\ Cardinality(DeckRecords) = 2
  /\ IndexIds = DeckRecords
  /\ \E d \in DeckRecords :
       /\ IsReviewed(CardsOf(d)[2])
       /\ FreshCard(CardsOf(d)[1])
       /\ ~IsReviewed(CardsOf(d)[1])

(* the index entries whose deck record is missing *)
DanglingIds == IndexIds \ DeckRecords

(* the ids of the cards, new or with due <= t, in the indexed decks      *)
(* whose record exists                                                   *)
DueIdsOfRecords(t) ==
  UNION {{CardsOf(d)[i].id : i \in {k \in 1 .. Len(CardsOf(d)) : IsDue(CardsOf(d)[k], t)}}
           : d \in IndexIds \cap DeckRecords}

(* C21: with an index entry whose deck record is missing, as a           *)
(* delete_deck killed between its unlink and its save_decks leaves it,   *)
(* get_due_cards() and get_dashboard_data() raise nothing, pass the      *)
(* entry over, and report the cards of the decks whose records exist     *)
(* and no others.                                                        *)
C21_DanglingSkipped ==
  LET due == DueNow
      board == DashboardNow
  IN  /\ get_due_cards_raises(files, NoFilter) = "none"
      /\ get_dashboard_data_raises(files) = "none"
      /\ \A i \in 1 .. Len(due) : due[i].deck_id \notin DanglingIds
      /\ ReturnedIds(due) = DueIdsOfRecords(now)
      /\ Len(due) = Cardinality(DueIdsOfRecords(now))
      /\ {board.decks[i].id : i \in 1 .. Len(board.decks)} = IndexIds \cap DeckRecords
      /\ Len(board.decks) = Cardinality(IndexIds \cap DeckRecords)
      /\ board.totalCards = Len(ShelfCards) * Cardinality(IndexIds \cap DeckRecords)
      /\ board.dueToday = Cardinality(DueIdsOfRecords(now))

(* two index entries, the record of one of them gone; the cards of the   *)
(* other deck are the ones reported, one of them reviewed and not due    *)
C21_Witness ==
  /\ Cardinality(IndexIds) = 2
  /\ Cardinality(DanglingIds) = 1
  /\ DashboardNow.totalCards = 2
  /\ Len(DashboardNow.decks) = 1
  /\ Len(DueNow) = 1

====
